---- MODULE Spec2Model ----
(***************************************************************************)
(* A model of nmod (github.com/jadekler/nmod): the command dispatcher      *)
(* nmod, the resolvers modules / rootdirs / dirs, the upward search        *)
(* searchUpwardsForModule, the downward search modFilesRecursivelyDown     *)
(* and the manifest reader readModule.                                     *)
(*                                                                         *)
(* A string is a sequence of one-character strings.  A path is kept as     *)
(* its elements (the strings between its separators) and whether it is     *)
(* rooted; filepath.Clean, Abs, Dir and the "/.." that the upward search   *)
(* appends work on the elements as they do in Go.                          *)
(***************************************************************************)
EXTENDS Integers, Sequences, FiniteSets, TLC

VARIABLES fs, cwd, cmd, args, out, exit, err, usageShown, sStart, sRes

vars == <<fs, cwd, cmd, args, out, exit, err, usageShown, sStart, sRes>>

(***************************************************************************)
(* Bounds of the model.                                                    *)
(***************************************************************************)
\* At most this many directories of the tree hold a go.mod or are closed.
MaxManifests == 2
\* At most this many arguments follow the command word.
MaxArgs == 2

(***************************************************************************)
(* Strings.                                                                *)
(***************************************************************************)
NL == "\n"

\* Whether the string lit stands in s at offset i.
HasAt(s, i, lit) ==
    /\ i + Len(lit) - 1 <= Len(s)
    /\ SubSeq(s, i, i + Len(lit) - 1) = lit

\* All sequences that enumerate the finite set S once each: the orders in
\* which a Go map with the keys S may be ranged.
Orders(S) ==
    { o \in [1..Cardinality(S) -> S] : \A i, j \in 1..Cardinality(S) : o[i] = o[j] => i = j }

\* The set of elements of a sequence.
Range(s) == { s[i] : i \in 1..Len(s) }

(***************************************************************************)
(* path/filepath on a Unix host.                                           *)
(***************************************************************************)
DotDot == <<".", ".">>
GoMod == <<"g", "o", ".", "m", "o", "d">>

\* The empty string "" (what searchUpwardsForModule returns when it finds
\* nothing), and the paths "/" and ".".
Empty == [abs |-> FALSE, els |-> <<>>]
Root == [abs |-> TRUE, els |-> <<>>]
Here == [abs |-> FALSE, els |-> <<<<".">>>>]

\* The strings of s between its separators, empty ones included.
RECURSIVE Elements(_)
Elements(s) ==
    IF \A i \in 1..Len(s) : s[i] # "/"
    THEN <<s>>
    ELSE LET k == CHOOSE i \in 1..Len(s) : s[i] = "/" /\ \A j \in 1..(i-1) : s[j] # "/"
         IN  <<SubSeq(s, 1, k - 1)>> \o Elements(SubSeq(s, k + 1, Len(s)))

\* A string as a path: rooted when it starts with a separator (filepath.IsAbs).
PathOf(s) == IF s = <<>> THEN Empty ELSE [abs |-> s[1] = "/", els |-> Elements(s)]

\* The element loop of filepath.Clean: skips empty elements and ".", lets
\* ".." remove the last element kept, drops ".." at the root and keeps it at
\* the start of a relative path.
RECURSIVE CleanElements(_, _, _)
CleanElements(els, rooted, kept) ==
    IF els = <<>> THEN kept
    ELSE IF Head(els) = <<>> \/ Head(els) = <<".">>
    THEN CleanElements(Tail(els), rooted, kept)
    ELSE IF Head(els) # DotDot
    THEN CleanElements(Tail(els), rooted, Append(kept, Head(els)))
    ELSE IF kept # <<>> /\ kept[Len(kept)] # DotDot
    THEN CleanElements(Tail(els), rooted, SubSeq(kept, 1, Len(kept) - 1))
    ELSE IF rooted
    THEN CleanElements(Tail(els), rooted, kept)
    ELSE CleanElements(Tail(els), rooted, Append(kept, DotDot))

\* What filepath.Clean returns for the elements kept: "." for a relative
\* path of no element.
Cleaned(rooted, kept) ==
    IF ~rooted /\ kept = <<>> THEN Here ELSE [abs |-> rooted, els |-> kept]

\* filepath.Clean
Clean(p) == Cleaned(p.abs, CleanElements(p.els, p.abs, <<>>))

\* filepath.Abs in the working directory wd: a rooted path is cleaned, any
\* other is joined to wd and cleaned.
Abs(wd, p) ==
    Cleaned(TRUE, CleanElements(IF p.abs THEN p.els ELSE wd.els \o p.els, TRUE, <<>>))

\* p + "/" + name, as the code concatenates strings ("" + "/.." is rooted).
Slash(p, name) == [abs |-> p.abs \/ p = Empty, els |-> Append(p.els, name)]

\* filepath.Dir: everything before the last separator, cleaned; "." when
\* there is no separator (and for the empty string).
Dir(p) ==
    Cleaned(p.abs, CleanElements(SubSeq(p.els, 1, Len(p.els) - 1), p.abs, <<>>))

\* The last element of a path (os.FileInfo.Name of a walked entry).
Base(p) == IF p.els = <<>> THEN <<".">> ELSE p.els[Len(p.els)]

\* strings.Join(els, "/")
RECURSIVE JoinElements(_)
JoinElements(els) ==
    IF els = <<>> THEN <<>>
    ELSE IF Len(els) = 1 THEN els[1]
    ELSE els[1] \o <<"/">> \o JoinElements(Tail(els))

\* The string of a cleaned path, as fmt.Println prints it.
PathString(p) == IF p.abs THEN <<"/">> \o JoinElements(p.els) ELSE JoinElements(p.els)

(***************************************************************************)
(* The filesystem: a tree of directories; each holds a go.mod with some    *)
(* content, a go.mod that cannot be read, or no go.mod, or is closed (it   *)
(* can be neither listed nor searched).                                    *)
(***************************************************************************)
\* The directories that exist, each by the elements of its rooted path.
A == <<"a">>
B == <<"b">>
C == <<"c">>
D == <<"d">>
Dirs == {<<>>, <<A>>, <<A, B>>, <<A, B, C>>, <<A, D>>}

\* Module names that manifests declare.
NameX == <<"x">>
NameB == <<"b">>
ModuleNames == {NameX, NameB}

\* A manifest declaring name n, and one that declares nothing.
Keyword == <<"m", "o", "d", "u", "l", "e", " ">>
Declaring(n) == Keyword \o n \o <<NL>>
NoDeclaration == <<"g", "o", " ", "1", NL>>

NoFile == [kind |-> "none", content |-> <<>>]
Closed == [kind |-> "closed", content |-> <<>>]
Unreadable == [kind |-> "unreadable", content |-> <<>>]
File(c) == [kind |-> "file", content |-> c]

Entries ==
    {NoFile, Closed, Unreadable, File(NoDeclaration)} \cup { File(Declaring(n)) : n \in ModuleNames }

\* Whether the directory of elements d holds a go.mod (readable or not).
HasManifest(d) == d \in Dirs /\ fs[d].kind \in {"file", "unreadable"}

\* Whether resolving a name inside the directory of elements d is refused:
\* d or a directory above it is closed.
Refused(d) ==
    \E k \in 0..Len(d) : SubSeq(d, 1, k) \in Dirs /\ fs[SubSeq(d, 1, k)].kind = "closed"

\* os.Stat of the file name in the directory dir (a cleaned rooted path):
\* "ok", "ENOENT" (os.IsNotExist) or "EACCES".
Stat(dir, name) ==
    IF Refused(dir.els) THEN "EACCES"
    ELSE IF Append(dir.els, name) \in Dirs THEN "ok"
    ELSE IF name = GoMod /\ HasManifest(dir.els) THEN "ok"
    ELSE "ENOENT"

(***************************************************************************)
(* Errors: the nil error and the errors the commands return.               *)
(***************************************************************************)
Nil == [kind |-> "nil", path |-> Empty]
StatError(p) == [kind |-> "stat", path |-> p]
ReadError(p) == [kind |-> "read", path |-> p]
WalkError(p) == [kind |-> "walk", path |-> p]
\* fmt.Errorf("%s doesn't have a go.mod, nor do any of the directories above it", d)
NoModuleAbove(d) == [kind |-> "nomoduleabove", path |-> d]
\* fmt.Errorf("%s doesn't seem to have a module declaration", f)
NoDeclarationIn(f) == [kind |-> "nodeclaration", path |-> f]

(***************************************************************************)
(* searchUpwardsForModule                                                  *)
(***************************************************************************)
\* A mutant of searchLoop: the search does not stop at the first go.mod but
\* keeps going all the way up, and returns the last one it has met.
RECURSIVE searchLoopFarthest(_, _, _)
searchLoopFarthest(wd, curDir, statted) ==
    LET absCurDir == Abs(wd, curDir)
        st == Stat(absCurDir, GoMod)
        here == [modFile |-> IF st = "ok" THEN Slash(absCurDir, GoMod) ELSE Empty,
                 err |-> Nil, statted |-> Append(statted, absCurDir)]
        above == searchLoopFarthest(wd, Slash(curDir, DotDot), Append(statted, absCurDir))
    IN  IF st \notin {"ok", "ENOENT"}
        THEN [modFile |-> Empty, err |-> StatError(Slash(absCurDir, GoMod)),
              statted |-> Append(statted, absCurDir)]
        ELSE IF absCurDir = Root THEN here
        ELSE IF above.modFile # Empty \/ above.err # Nil THEN above
        ELSE [here EXCEPT !.statted = above.statted]

\* The for loop from its iteration at curDir on; statted is the sequence of
\* directories whose go.mod has been given to os.Stat so far.  The loop
\* condition absCurDir != "/" is tested after an iteration that found
\* nothing, before the next one.
RECURSIVE searchLoop(_, _, _)
searchLoop(wd, curDir, statted) ==
    LET absCurDir == Abs(wd, curDir)
        st == Stat(absCurDir, GoMod)
    IN  IF st = "ENOENT"
        THEN IF absCurDir = Root
             THEN [modFile |-> Empty, err |-> Nil, statted |-> Append(statted, absCurDir)]
             ELSE searchLoop(wd, Slash(curDir, DotDot), Append(statted, absCurDir))
        ELSE IF st # "ok"
        THEN [modFile |-> Empty, err |-> StatError(Slash(absCurDir, GoMod)),
              statted |-> Append(statted, absCurDir)]
        ELSE [modFile |-> Slash(absCurDir, GoMod), err |-> Nil,
              statted |-> Append(statted, absCurDir)]

searchUpwardsForModule(wd, startDir) == searchLoop(wd, startDir, <<>>)

(***************************************************************************)
(* readModule                                                              *)
(***************************************************************************)
\* ioutil.ReadFile of the path f, resolved in the working directory.
ReadFile(wd, f) ==
    LET d == Dir(Abs(wd, f)).els
    IN  IF /\ Base(f) = GoMod
           /\ ~Refused(d)
           /\ d \in Dirs
           /\ fs[d].kind = "file"
        THEN [data |-> fs[d].content, err |-> Nil]
        ELSE [data |-> <<>>, err |-> ReadError(f)]

\* The positions where the regular expression "module (.+)" matches: the
\* keyword and a space, then at least one character other than a newline.
MatchStarts(s) ==
    { i \in 1..Len(s) : /\ HasAt(s, i, Keyword)
                        /\ i + Len(Keyword) <= Len(s)
                        /\ s[i + Len(Keyword)] # NL }

\* The group (.+) of the match that starts at i: greedy, to the end of the
\* line.
Capture(s, i) ==
    LET ends == { j \in (i + Len(Keyword))..Len(s) : \A k \in (i + Len(Keyword))..j : s[k] # NL }
    IN  SubSeq(s, i + Len(Keyword), CHOOSE j \in ends : \A k \in ends : k <= j)

\* matches[0][1] of FindAllStringSubmatch, or the error for no match, once
\* the file has been read (r).
firstMatch(f, r) ==
    IF r.err # Nil THEN [name |-> <<>>, err |-> r.err]
    ELSE IF MatchStarts(r.data) = {} THEN [name |-> <<>>, err |-> NoDeclarationIn(f)]
    ELSE [name |-> Capture(r.data, CHOOSE i \in MatchStarts(r.data) :
                                       \A j \in MatchStarts(r.data) : i <= j),
          err |-> Nil]

readModule(wd, f) == firstMatch(f, ReadFile(wd, f))

(***************************************************************************)
(* filepath.Walk and modFilesRecursivelyDown                               *)
(***************************************************************************)
\* The characters of the model in byte order (Walk visits names sorted).
ByteOrder == <<" ", ".", "/", "1", "a", "b", "c", "d", "e", "g", "l", "m", "o", "u", "x">>
Byte(c) == CHOOSE i \in 1..Len(ByteOrder) : ByteOrder[i] = c

\* String comparison a < b.
RECURSIVE Less(_, _)
Less(a, b) ==
    IF b = <<>> THEN FALSE
    ELSE IF a = <<>> THEN TRUE
    ELSE IF Head(a) = Head(b) THEN Less(Tail(a), Tail(b))
    ELSE Byte(Head(a)) < Byte(Head(b))

\* The names in the directory of elements d.
NamesIn(d) ==
    { e[Len(e)] : e \in { e \in Dirs : Len(e) = Len(d) + 1 /\ SubSeq(e, 1, Len(d)) = d } }
    \cup (IF HasManifest(d) THEN {GoMod} ELSE {})

\* readDirNames: the names, sorted.
ReadDirNames(d) ==
    CHOOSE o \in Orders(NamesIn(d)) : \A i, j \in 1..Len(o) : i < j => Less(o[i], o[j])

\* walk of filepath.Walk with the callback of modFilesRecursivelyDown: the
\* paths named go.mod met at and below the directory path, and the error
\* that ended the walk.  A closed directory cannot be listed: the callback
\* is given the error and returns it.
RECURSIVE walk(_, _)
RECURSIVE walkNames(_, _, _, _)
walk(wd, path) ==
    IF fs[Abs(wd, path).els].kind = "closed"
    THEN [files |-> {}, err |-> WalkError(path)]
    ELSE walkNames(wd, path, ReadDirNames(Abs(wd, path).els), {})

\* One name of the directory: a directory is walked (r is the outcome of
\* that walk) and its error ends the walk; a file named go.mod is recorded.
walkName(wd, path, names, found, r) ==
    IF Abs(wd, Slash(path, Head(names))).els \in Dirs
    THEN IF r.err # Nil THEN [files |-> {}, err |-> r.err]
         ELSE walkNames(wd, path, Tail(names), found \cup r.files)
    ELSE IF Head(names) = GoMod
    THEN walkNames(wd, path, Tail(names), found \cup {Clean(Slash(path, Head(names)))})
    ELSE walkNames(wd, path, Tail(names), found)

walkNames(wd, path, names, found) ==
    IF names = <<>> THEN [files |-> found, err |-> Nil]
    ELSE walkName(wd, path, names, found, walk(wd, Clean(Slash(path, Head(names)))))

\* The second half of modFilesRecursivelyDown: the map of paths is ranged
\* in any order.
rangeFiles(w) ==
    IF w.err # Nil THEN {[modFiles |-> <<>>, err |-> w.err]}
    ELSE { [modFiles |-> o, err |-> Nil] : o \in Orders(w.files) }

\* The outcomes of modFilesRecursivelyDown.
modFilesRecursivelyDown(wd) == rangeFiles(walk(wd, Here))

\* A mutant of appendUpwards: no go.mod above the working directory is taken
\* for an error, as modules takes it for its arguments.
appendUpwardsOrFail(d, up) ==
    IF d.err # Nil THEN d
    ELSE IF up.err # Nil THEN [modFiles |-> d.modFiles, err |-> up.err]
    ELSE IF up.modFile # Empty THEN [modFiles |-> Append(d.modFiles, up.modFile), err |-> Nil]
    ELSE [modFiles |-> d.modFiles, err |-> NoModuleAbove(Here)]

\* "Look up and down for modfiles" of nmod, after the files below are
\* known: the one above is appended.
appendUpwards(d, up) ==
    IF d.err # Nil THEN d
    ELSE IF up.err # Nil THEN [modFiles |-> d.modFiles, err |-> up.err]
    ELSE IF up.modFile # Empty THEN [modFiles |-> Append(d.modFiles, up.modFile), err |-> Nil]
    ELSE d

lookUpAndDown(wd) ==
    { appendUpwards(d, searchUpwardsForModule(wd, Here)) : d \in modFilesRecursivelyDown(wd) }

(***************************************************************************)
(* modules, rootdirs, dirs                                                 *)
(***************************************************************************)
RECURSIVE lookupEach(_, _, _)

\* A mutant of lookupStep: a directory with no go.mod above it is passed
\* over.
lookupStepPassingOver(wd, dirs, modFiles, d, m) ==
    IF m.err # Nil THEN [modFiles |-> modFiles, err |-> m.err]
    ELSE IF m.modFile = Empty THEN lookupEach(wd, Tail(dirs), modFiles)
    ELSE lookupEach(wd, Tail(dirs), modFiles \cup {m.modFile})

\* One step of the first loop of modules, given the search result m for the
\* directory d.
lookupStep(wd, dirs, modFiles, d, m) ==
    IF m.err # Nil THEN [modFiles |-> modFiles, err |-> m.err]
    ELSE IF m.modFile = Empty THEN [modFiles |-> modFiles, err |-> NoModuleAbove(d)]
    ELSE lookupEach(wd, Tail(dirs), modFiles \cup {m.modFile})

\* The first loop of modules: the go.mod above each directory.
lookupEach(wd, dirs, modFiles) ==
    IF dirs = <<>> THEN [modFiles |-> modFiles, err |-> Nil]
    ELSE lookupStep(wd, dirs, modFiles, Abs(wd, Head(dirs)),
                    searchUpwardsForModule(wd, Abs(wd, Head(dirs))))

\* The second loop of modules (and the loop of nmod that aggregates the
\* modules of the modfiles): readModule of each file in turn; read is the
\* sequence of names read so far.
RECURSIVE readEach(_, _, _)
readStep(wd, files, read, m) ==
    IF m.err # Nil THEN [names |-> read, err |-> m.err]
    ELSE readEach(wd, Tail(files), Append(read, m.name))

readEach(wd, files, read) ==
    IF files = <<>> THEN [names |-> read, err |-> Nil]
    ELSE readStep(wd, files, read, readModule(wd, Head(files)))

\* A mutant of printAfterReads: every name read is printed, without the set
\* that removes the names read twice.
printEveryName(r) ==
    IF r.err # Nil THEN {[out |-> <<>>, err |-> r.err]}
    ELSE {[out |-> r.names, err |-> Nil]}

\* A mutant of printAfterReads: the names are printed as they are read.
printWhileReading(r) ==
    IF r.err # Nil THEN {[out |-> r.names, err |-> r.err]}
    ELSE { [out |-> p, err |-> Nil] : p \in Orders(Range(r.names)) }

\* The third loop of modules: the set of names is printed once every file
\* has been read, in any order; nothing is printed when a read failed.
printAfterReads(r) ==
    IF r.err # Nil THEN {[out |-> <<>>, err |-> r.err]}
    ELSE { [out |-> p, err |-> Nil] : p \in Orders(Range(r.names)) }

\* modules after its first loop.
readAndPrint(wd, l) ==
    IF l.err # Nil THEN {[out |-> <<>>, err |-> l.err]}
    ELSE UNION { printAfterReads(readEach(wd, o, <<>>)) : o \in Orders(l.modFiles) }

\* The outcomes of modules(dirs): what it prints and the error it returns.
modules(wd, dirs) == readAndPrint(wd, lookupEach(wd, dirs, {}))

\* The first loop of rootdirs: each argument is searched upwards as a
\* directory; a search that finds nothing adds the empty path.
RECURSIVE searchEach(_, _, _)
searchStep(wd, dirs, modFiles, m) ==
    IF m.err # Nil THEN [modFiles |-> modFiles, err |-> m.err]
    ELSE searchEach(wd, Tail(dirs), modFiles \cup {m.modFile})

searchEach(wd, dirs, modFiles) ==
    IF dirs = <<>> THEN [modFiles |-> modFiles, err |-> Nil]
    ELSE searchStep(wd, dirs, modFiles, searchUpwardsForModule(wd, PathOf(Head(dirs))))

\* The second loop of rootdirs: the directory of each modfile, in any order.
printDirs(l) ==
    IF l.err # Nil THEN {[out |-> <<>>, err |-> l.err]}
    ELSE { [out |-> [i \in 1..Len(o) |-> PathString(Dir(o[i]))], err |-> Nil] :
           o \in Orders(l.modFiles) }

\* The outcomes of rootdirs(dirs).
rootdirs(wd, dirs) == printDirs(searchEach(wd, dirs, {}))

\* dirs is not implemented: it prints nothing and returns nil.
dirs(wd, a) == {[out |-> <<>>, err |-> Nil]}

(***************************************************************************)
(* nmod and main                                                           *)
(***************************************************************************)
\* usage() prints the usage text and exits with status 2 at once.
Usage == [out |-> <<>>, err |-> Nil, usage |-> TRUE]
Returns(r) == [out |-> r.out, err |-> r.err, usage |-> FALSE]
Fails(e) == [out |-> <<>>, err |-> e, usage |-> FALSE]

\* "Aggregate the dirs of the modfiles".
dirsOfModFiles(g) ==
    [dirs |-> [i \in 1..Len(g.modFiles) |-> Dir(g.modFiles[i])], err |-> g.err]

\* return modules(dirs), unless looking up and down has failed before.
modulesOfDirs(wd, x) ==
    IF x.err # Nil THEN {Fails(x.err)}
    ELSE { Returns(r) : r \in modules(wd, x.dirs) }

\* "Aggregate the modules of the modfiles".
modulesRead(wd, g) ==
    IF g.err # Nil THEN [names |-> <<>>, err |-> g.err]
    ELSE readEach(wd, g.modFiles, <<>>)

\* The second switch of nmod, on the modules calculated.
dispatchModules(wd, c, m) ==
    IF m.err # Nil THEN {Fails(m.err)}
    ELSE IF c = "rootdirs" THEN { Returns(r) : r \in rootdirs(wd, m.names) }
    ELSE IF c = "dirs" THEN { Returns(r) : r \in dirs(wd, m.names) }
    ELSE {Usage}

\* The outcomes of nmod(cmd, args).  The arguments of "modules" are
\* directories; with none, the directories of the modfiles above and below
\* are taken.  Every command word but "modules" and "help" leaves the first
\* switch for the calculation of modules.
nmod(wd, c, a) ==
    IF c = "modules"
    THEN UNION { modulesOfDirs(wd, x) :
                 x \in IF a # <<>>
                       THEN {[dirs |-> [i \in 1..Len(a) |-> PathOf(a[i])], err |-> Nil]}
                       ELSE { dirsOfModFiles(g) : g \in lookUpAndDown(wd) } }
    ELSE IF c = "help" THEN {Usage}
    ELSE UNION { dispatchModules(wd, c, m) :
                 m \in IF a # <<>> THEN {[names |-> a, err |-> Nil]}
                       ELSE { modulesRead(wd, g) : g \in lookUpAndDown(wd) } }

\* main: the exit status of the process.
ExitStatus(r) == IF r.usage THEN 2 ELSE IF r.err # Nil THEN 1 ELSE 0

(***************************************************************************)
(* The state machine: a filesystem and a working directory, in which the   *)
(* process runs once; the state keeps what it printed and how it exited.   *)
(***************************************************************************)
\* The directory arguments and the module arguments of the runs.
DirArguments == {<<".">>, <<"b">>, <<"/", "a", "/", "d">>}
ModuleArguments == ModuleNames

ArgLists(S) == UNION { [1..n -> S] : n \in 0..MaxArgs }

\* The filesystems of the model: few directories hold anything.
Sparse(f) == Cardinality({ d \in Dirs : f[d] # NoFile }) <= MaxManifests

NoSearch == [modFile |-> Empty, err |-> Nil, statted |-> <<>>]

Init ==
    /\ fs \in [Dirs -> Entries]
    /\ Sparse(fs)
    /\ cwd \in { [abs |-> TRUE, els |-> d] : d \in Dirs }
    /\ ~Refused(cwd.els)
    /\ cmd = "none"
    /\ args = <<>>
    /\ out = <<>>
    /\ exit = 0
    /\ err = Nil
    /\ usageShown = FALSE
    /\ sStart = Empty
    /\ sRes = NoSearch

\* One run of the process with the command word c and the arguments a.
Run(c, a) ==
    \E r \in nmod(cwd, c, a) :
        /\ cmd' = c
        /\ args' = a
        /\ out' = r.out
        /\ err' = r.err
        /\ usageShown' = r.usage
        /\ exit' = ExitStatus(r)
        /\ UNCHANGED <<fs, cwd, sStart, sRes>>

RunModules == cmd = "none" /\ \E a \in ArgLists(DirArguments) : Run("modules", a)
RunRootdirs == cmd = "none" /\ \E a \in ArgLists(ModuleArguments) : Run("rootdirs", a)
RunDirs == cmd = "none" /\ \E a \in ArgLists(ModuleArguments) : Run("dirs", a)
RunHelp == cmd = "none" /\ \E a \in ArgLists(ModuleArguments) : Run("help", a)
RunOther == cmd = "none" /\ \E a \in ArgLists(ModuleArguments) : Run("bogus", a)

\* main with no argument at all: usage().
RunNothing ==
    /\ cmd = "none"
    /\ cmd' = "empty"
    /\ args' = <<>>
    /\ out' = <<>>
    /\ err' = Nil
    /\ usageShown' = TRUE
    /\ exit' = 2
    /\ UNCHANGED <<fs, cwd, sStart, sRes>>

Next ==
    \/ RunModules
    \/ RunRootdirs
    \/ RunDirs
    \/ RunHelp
    \/ RunOther
    \/ RunNothing

Spec == Init /\ [][Next]_vars

(***************************************************************************)
(* The search as an operation of its own: one call of                      *)
(* searchUpwardsForModule on a start directory.                            *)
(***************************************************************************)
StartDirs ==
    { <<".">>, <<"b">>, <<"b", "/", "c">>, <<"q">>, <<".", ".">>,
      <<"/", "a", "/", "d">>, <<"/", "a", "/", "b", "/", "c">> }

Search ==
    /\ cmd = "none"
    /\ \E s \in StartDirs :
        /\ sStart' = PathOf(s)
        /\ sRes' = searchUpwardsForModule(cwd, PathOf(s))
    /\ cmd' = "search"
    /\ UNCHANGED <<fs, cwd, args, out, exit, err, usageShown>>

SpecSearch == Init /\ [][Search]_vars

(***************************************************************************)
(* What the claims speak of: the manifests above and below a directory,    *)
(* and the names they declare.                                             *)
(***************************************************************************)
IsPrefix(d, e) == Len(d) <= Len(e) /\ SubSeq(e, 1, Len(d)) = d

\* The directories at and above the directory of elements d that hold a
\* manifest, and the nearest of them.
ManifestsAbove(d) == { e \in Dirs : IsPrefix(e, d) /\ HasManifest(e) }
Nearest(d) == CHOOSE e \in ManifestsAbove(d) : \A g \in ManifestsAbove(d) : Len(g) <= Len(e)

\* The directories at and below d that hold a manifest.
ManifestsBelow(d) == { e \in Dirs : IsPrefix(d, e) /\ HasManifest(e) }

\* The manifests in scope of the working directory.
InScope ==
    ManifestsBelow(cwd.els)
    \cup (IF ManifestsAbove(cwd.els) = {} THEN {} ELSE {Nearest(cwd.els)})

\* The names that the manifest of directory d declares (none when it cannot
\* be read or holds no declaration).
DeclaredIn(d) == { n \in ModuleNames : fs[d] = File(Declaring(n)) }
NamesOf(ds) == UNION { DeclaredIn(d) : d \in ds }

\* Every manifest of ds can be read and declares a module.
AllDeclare(ds) == \A d \in ds : DeclaredIn(d) # {}

\* No directory at or below the working directory is closed.
WalkMeetsNoError == \A e \in Dirs : IsPrefix(cwd.els, e) => fs[e].kind # "closed"

\* The i-th argument as an absolute directory.
ArgDir(i) == Abs(cwd, PathOf(args[i]))
\* Its lookup meets no filesystem error, and finds no manifest / a manifest.
ArgMissing(i) == ~Refused(ArgDir(i).els) /\ ManifestsAbove(ArgDir(i).els) = {}
ArgFound(i) == ~Refused(ArgDir(i).els) /\ ManifestsAbove(ArgDir(i).els) # {}

\* The printed lines hold no line twice.
NoDuplicates(s) == \A i, j \in 1..Len(s) : s[i] = s[j] => i = j

\* The printed string of the directory of elements d.
DirString(d) == PathString([abs |-> TRUE, els |-> d])

(***************************************************************************)
(* C1.                                                                     *)
(***************************************************************************)
\* C1 as stated: in every tree and working directory, modules without
\* arguments succeeds and prints exactly the names declared by the manifests
\* in scope.
C1_AsStated ==
    (cmd = "modules" /\ args = <<>>) =>
        /\ exit = 0
        /\ Range(out) = NamesOf(InScope)
        /\ NoDuplicates(out)

\* C1 amended: when the walk below the working directory meets no closed
\* directory and every manifest in scope can be read and declares a module,
\* modules without arguments succeeds and prints exactly the names declared
\* by the nearest manifest at or above the working directory (if any) and by
\* every manifest below it; no manifest above is not an error.
C1_ModulesNoArgs ==
    (cmd = "modules" /\ args = <<>> /\ WalkMeetsNoError /\ AllDeclare(InScope)) =>
        /\ exit = 0
        /\ err = Nil
        /\ Range(out) = NamesOf(InScope)
        /\ NoDuplicates(out)

\* modules without arguments has run where no manifest is at or above the
\* working directory and one lies below it, and has printed its name.
C1_Witness ==
    /\ cmd = "modules" /\ args = <<>>
    /\ WalkMeetsNoError /\ AllDeclare(InScope)
    /\ ManifestsAbove(cwd.els) = {}
    /\ \E d \in InScope : Len(d) >= Len(cwd.els) + 2
    /\ exit = 0
    /\ out # <<>>

(***************************************************************************)
(* C2.                                                                     *)
(***************************************************************************)
\* C2 as stated: when some argument directory of modules has no manifest at
\* or above it, the command fails with the error that names such a
\* directory by its absolute path, whatever the other arguments are.
C2_AsStated ==
    (cmd = "modules" /\ \E i \in 1..Len(args) : ArgMissing(i)) =>
        /\ exit = 1
        /\ \E i \in 1..Len(args) : ArgMissing(i) /\ err = NoModuleAbove(ArgDir(i))

\* The first argument whose lookup fails: it has no manifest above it or its
\* lookup meets a filesystem error.
FirstFailing == CHOOSE i \in 1..Len(args) :
                  /\ ~ArgFound(i)
                  /\ \A j \in 1..(i-1) : ArgFound(j)

\* C2 amended: when some argument directory of modules has no manifest at or
\* above it, the command fails and prints nothing; the error is that of the
\* first argument whose lookup fails, and names that directory's absolute
\* path when the failure is that it has no manifest above it.
C2_MissingFails ==
    (cmd = "modules" /\ \E i \in 1..Len(args) : ArgMissing(i)) =>
        /\ exit = 1
        /\ out = <<>>
        /\ IF ArgMissing(FirstFailing)
           THEN err = NoModuleAbove(ArgDir(FirstFailing))
           ELSE err.kind = "stat"

\* modules has run on two arguments, the first with a manifest above it, the
\* second without, and has failed naming the second.
C2_Witness ==
    /\ cmd = "modules" /\ Len(args) = 2
    /\ ArgFound(1) /\ ArgMissing(2)
    /\ exit = 1
    /\ err = NoModuleAbove(ArgDir(2))

(***************************************************************************)
(* C3.                                                                     *)
(***************************************************************************)
\* The nearest manifests of the arguments.
ArgManifests == { Nearest(ArgDir(i).els) : i \in 1..Len(args) }

NoneClosed == \A d \in Dirs : fs[d].kind # "closed"

\* The manifests in scope that declare the name n.
ManifestsDeclaring(n) == { d \in InScope : n \in DeclaredIn(d) }

\* C4 (in a tree with no closed directory): for every module name given to
\* rootdirs that a manifest in scope declares, the absolute path of the
\* directory of a manifest that declares it is printed.
C4_AsStated ==
    (cmd = "rootdirs" /\ NoneClosed) =>
        \A i \in 1..Len(args) :
            ManifestsDeclaring(args[i]) # {} =>
                \E d \in ManifestsDeclaring(args[i]) : DirString(d) \in Range(out)

\* C5: for every module name given to rootdirs that no manifest in scope
\* declares, the command fails with exit status 1.
C5_AsStated ==
    cmd = "rootdirs" =>
        \A i \in 1..Len(args) : ManifestsDeclaring(args[i]) = {} => exit = 1

\* C6 (in a tree with no closed directory whose manifests in scope all
\* declare a module): rootdirs without arguments prints the directory of the
\* nearest manifest at or above the working directory and of every manifest
\* below it, each once.
C6_AsStated ==
    (cmd = "rootdirs" /\ args = <<>> /\ NoneClosed /\ AllDeclare(InScope)) =>
        /\ Range(out) = { DirString(d) : d \in InScope }
        /\ NoDuplicates(out)

\* The directories of the module whose manifest is in d: d and every
\* directory below it that is not at or below a manifest nested under d.
OwnedBy(d) ==
    { e \in Dirs : /\ IsPrefix(d, e)
                   /\ \A g \in Dirs : (IsPrefix(d, g) /\ g # d /\ IsPrefix(g, e)) => ~HasManifest(g) }

\* C7 (in a tree with no closed directory): for the module names given to
\* dirs that manifests in scope declare, the directories of these modules
\* are printed: the root directory of each and what lies below it outside
\* nested modules.
C7_AsStated ==
    (cmd = "dirs" /\ args # <<>> /\ NoneClosed
     /\ \A i \in 1..Len(args) : ManifestsDeclaring(args[i]) # {}) =>
        Range(out) = { DirString(e) :
                       e \in UNION { OwnedBy(d) : d \in UNION { ManifestsDeclaring(args[i]) : i \in 1..Len(args) } } }

(***************************************************************************)
(* C8: command words that are no command.                                  *)
(***************************************************************************)
\* C8: for every command word other than modules, rootdirs and dirs (help
\* included) the run ends with the usage text and exit status 2, never with
\* an error and status 1, and prints no result line.
C8_AsStated ==
    cmd \in {"help", "bogus"} =>
        /\ usageShown
        /\ exit = 2
        /\ err = Nil
        /\ out = <<>>

(***************************************************************************)
(* C9: nothing is printed by a run that fails.                             *)
(***************************************************************************)
\* C9: a run of modules or rootdirs that ends with an error has printed no
\* result line.
C9_NoOutputOnError ==
    (cmd \in {"modules", "rootdirs"} /\ exit = 1) => out = <<>>

\* modules has run on two arguments with different nearest manifests, one
\* that declares a module and one that does not or cannot be read, and has
\* failed on the latter.
C9_Witness ==
    /\ cmd = "modules" /\ Len(args) = 2
    /\ ArgFound(1) /\ ArgFound(2)
    /\ DeclaredIn(Nearest(ArgDir(1).els)) # {}
    /\ DeclaredIn(Nearest(ArgDir(2).els)) = {}
    /\ exit = 1
    /\ err.kind \in {"read", "nodeclaration"}

(***************************************************************************)
(* C10: the upward search returns the closest manifest.                    *)
(***************************************************************************)
\* The start directory of the search, absolute.
StartDir == Abs(cwd, sStart)

MaxIterations == 8

\* curDir after n post statements curDir += "/..": the start directory
\* followed by n times "/..", rooted when the start directory is the empty
\* string.
curDirAfter(startDir, n) ==
    IF n = 0 THEN startDir
    ELSE [abs |-> startDir.abs \/ startDir = Empty,
          els |-> startDir.els \o [i \in 1..n |-> DotDot]]

\* A mutant of loopCondition: the loop does not stop at the root.
loopConditionForever(absCurDir) == TRUE

\* The loop condition absCurDir != "/", tested after an iteration that
\* found nothing.
loopCondition(absCurDir) == absCurDir # Root

\* One iteration of the loop, given absCurDir and what os.Stat said of its
\* go.mod (st): what the iteration returns, or that the loop goes on (again)
\* after the continue, the post statement and the condition.
searchIteration(absCurDir, st, statted) ==
    IF st = "ENOENT"
    THEN [modFile |-> Empty, err |-> Nil, statted |-> Append(statted, absCurDir),
          again |-> loopCondition(absCurDir)]
    ELSE IF st # "ok"
    THEN [modFile |-> Empty, err |-> StatError(Slash(absCurDir, GoMod)),
          statted |-> Append(statted, absCurDir), again |-> FALSE]
    ELSE [modFile |-> Slash(absCurDir, GoMod), err |-> Nil,
          statted |-> Append(statted, absCurDir), again |-> FALSE]

\* The call: curDir := startDir; absCurDir is "", so the loop is entered.
SearchStart ==
    /\ cmd = "none"
    /\ \E s \in StartDirs : sStart' = PathOf(s)
    /\ sRes' = NoSearch
    /\ cmd' = "searching"
    /\ UNCHANGED <<fs, cwd, args, out, exit, err, usageShown>>

\* One iteration; the search has returned when cmd is "searched".
SearchIterate ==
    /\ cmd = "searching"
    /\ Len(sRes.statted) < MaxIterations
    /\ \E absCurDir \in {Abs(cwd, curDirAfter(sStart, Len(sRes.statted)))} :
       \E it \in {searchIteration(absCurDir, Stat(absCurDir, GoMod), sRes.statted)} :
           /\ sRes' = [modFile |-> it.modFile, err |-> it.err, statted |-> it.statted]
           /\ cmd' = IF it.again THEN "searching" ELSE "searched"
    /\ UNCHANGED <<fs, cwd, sStart, args, out, exit, err, usageShown>>

NextIteration ==
    \/ SearchStart
    \/ SearchIterate

\* The loop runs on its own: an iteration that can be taken is taken.
SpecIterations == Init /\ [][NextIteration]_vars /\ WF_vars(SearchIterate)

(***************************************************************************)
(* C11: the upward search terminates.                                      *)
(***************************************************************************)
\* The directories consulted so far, in order.
Consulted == sRes.statted

\* Each iteration has consulted a strictly shorter absolute path than the
\* one before it.
StrictlyShorter ==
    \A i \in 1..(Len(Consulted) - 1) :
        Len(PathString(Consulted[i + 1])) < Len(PathString(Consulted[i]))

\* How many times the filesystem root has been consulted.
RootChecks == Cardinality({ i \in 1..Len(Consulted) : Consulted[i] = Root })

\* What holds in every state of a search: the paths consulted get strictly
\* shorter, the root is consulted at most once and nothing after it, the
\* search never needs more iterations than the start directory has
\* elements plus one, the loop returns what searchUpwardsForModule returns,
\* and a search that returns without a filesystem error where no manifest
\* is at or above the start directory has consulted the root once, as the
\* last directory, and returns the empty result and no error.
SearchEnds ==
    cmd \in {"searching", "searched"} =>
        /\ StrictlyShorter
        /\ RootChecks <= 1
        /\ Len(Consulted) <= Len(StartDir.els) + 1
        /\ cmd = "searching" => Len(Consulted) < MaxIterations
        /\ cmd = "searched" => sRes = searchUpwardsForModule(cwd, sStart)
        /\ (cmd = "searched" /\ ~Refused(StartDir.els) /\ ManifestsAbove(StartDir.els) = {}) =>
               /\ sRes.modFile = Empty
               /\ sRes.err = Nil
               /\ RootChecks = 1
               /\ Consulted[Len(Consulted)] = Root

MaxLines == 2

\* The word module, without the space of the regular expression.
Module == SubSeq(Keyword, 1, Len(Keyword) - 1)

\* The lines of the manifests read: declarations of x and of b, a
\* declaration with two separating spaces, with a tab, with a carriage
\* return before the newline and with a space before it, a go directive
\* and a comment that holds the keyword.
ManifestLines ==
    { Module \o <<" ", "x">>,
      Module \o <<" ", "b">>,
      Module \o <<" ", " ", "x">>,
      Module \o <<"\t", "x">>,
      Module \o <<" ", "x", "\r">>,
      Module \o <<" ", "x", " ">>,
      <<"g", "o", " ", "1">>,
      <<"/", "/", " ">> \o Module \o <<" ", "x">> }

\* The content of a file of the lines ls, each ended by a newline.
RECURSIVE ContentOf(_)
ContentOf(ls) == IF ls = <<>> THEN <<>> ELSE Head(ls) \o <<NL>> \o ContentOf(Tail(ls))

Contents == { ContentOf(ls) : ls \in UNION { [1..n -> ManifestLines] : n \in 0..MaxLines } }

\* The file read: the go.mod of the root directory, the only one there is.
ManifestRead == [abs |-> TRUE, els |-> <<GoMod>>]

InitRead ==
    /\ \E c \in Contents : fs = [d \in Dirs |-> IF d = <<>> THEN File(c) ELSE NoFile]
    /\ cwd = Root
    /\ cmd = "none"
    /\ args = <<>>
    /\ out = <<>>
    /\ exit = 0
    /\ err = Nil
    /\ usageShown = FALSE
    /\ sStart = Empty
    /\ sRes = NoSearch

\* One call readModule(f); the name returned is kept in out, the error in
\* err.
ReadModule ==
    /\ cmd = "none"
    /\ \E r \in {readModule(cwd, ManifestRead)} :
        /\ out' = IF r.err = Nil THEN <<r.name>> ELSE <<>>
        /\ err' = r.err
    /\ cmd' = "readModule"
    /\ UNCHANGED <<fs, cwd, args, exit, usageShown, sStart, sRes>>

SpecRead == InitRead /\ [][ReadModule]_vars

(***************************************************************************)
(* C12: the name readModule returns.                                       *)
(***************************************************************************)
\* Whitespace and line-ending characters.
Whitespace == {" ", "\t", "\r"}

\* The lines of the content s: what its newlines separate.
RECURSIVE LinesOf(_)
LinesOf(s) ==
    IF \A i \in 1..Len(s) : s[i] # NL
    THEN <<s>>
    ELSE LET k == CHOOSE i \in 1..Len(s) : s[i] = NL /\ \A j \in 1..(i-1) : s[j] # NL
         IN  <<SubSeq(s, 1, k - 1)>> \o LinesOf(SubSeq(s, k + 1, Len(s)))

\* The line l without its leading and its trailing whitespace.
Trimmed(l) ==
    LET inked == { i \in 1..Len(l) : l[i] \notin Whitespace }
    IN  IF inked = {} THEN <<>>
        ELSE SubSeq(l, CHOOSE i \in inked : \A j \in inked : i <= j,
                       CHOOSE i \in inked : \A j \in inked : j <= i)

\* The name a declaration line declares: the remainder of the line after
\* the keyword and the run of whitespace that follows it, without trailing
\* whitespace or line-ending character.
DeclaredName(l) == Trimmed(SubSeq(l, Len(Module) + 1, Len(l)))

\* A declaration line: the keyword module, whitespace, a name.
IsDeclaration(l) ==
    /\ HasAt(l, 1, Module)
    /\ Len(l) > Len(Module)
    /\ l[Len(Module) + 1] \in Whitespace
    /\ DeclaredName(l) # <<>>

\* The declaration lines of the manifest read, in order.
Declarations == SelectSeq(LinesOf(fs[<<>>].content), IsDeclaration)

\* C12: for a content with at least one declaration line readModule
\* returns the name of the first declaration line, which is the remainder
\* of that line after the keyword module and one run of whitespace, with no
\* leading whitespace and no trailing whitespace or line-ending character;
\* for a content with no declaration line it returns an error and no name.
C12_AsStated ==
    cmd = "readModule" =>
        IF Declarations # <<>>
        THEN err = Nil /\ out = <<DeclaredName(Declarations[1])>>
        ELSE err # Nil /\ out = <<>>
====
